---- MODULE Spec2Model ----
(***************************************************************************)
(* Model of src/main.py: the LINE webhook handler line_webhook, the        *)
(* keyword store (load_users / save_users), normalize_keywords,            *)
(* verify_signature and line_reply.                                        *)
(*                                                                         *)
(* Text is a sequence of characters; a character is a one-element string   *)
(* (or a short name for a character that has no ASCII spelling).           *)
(* The handler runs on one asyncio event loop: a request runs without      *)
(* interruption from one await to the next.  `running` names the request   *)
(* that holds the loop, 0 when the loop is free.                           *)
(***************************************************************************)
EXTENDS Integers, Sequences, FiniteSets, TLC

(* ------------------------------------------------------------------ *)
(* Bounds                                                             *)
(* ------------------------------------------------------------------ *)
MaxReqs == 2
MaxEvents == 2
MaxCmdEvents == 3
MaxNormLen == 5

Reqs == 1..MaxReqs

(* ------------------------------------------------------------------ *)
(* Characters and strings                                             *)
(* ------------------------------------------------------------------ *)
SP == " "
FWSP == "FWSP"
TAB == "TAB"
NL == "NL"

\* str.strip() with no argument strips every Unicode whitespace character.
IsSpace(c) == c \in {SP, FWSP, TAB, NL}

\* str.lower() on the characters of the model's alphabet.
LowerChar(c) ==
  CASE c = "X" -> "x"
    [] c = "Z" -> "z"
    [] c = "L" -> "l"
    [] c = "I" -> "i"
    [] c = "S" -> "s"
    [] c = "T" -> "t"
    [] OTHER -> c

Lower(s) == [i \in 1..Len(s) |-> LowerChar(s[i])]

\* str.replace(a, b) for one-character a and b.
Replace(s, a, b) == [i \in 1..Len(s) |-> IF s[i] = a THEN b ELSE s[i]]

RECURSIVE LStrip(_)
LStrip(s) == IF s # <<>> /\ IsSpace(Head(s)) THEN LStrip(Tail(s)) ELSE s

RECURSIVE RStrip(_)
RStrip(s) ==
  IF s # <<>> /\ IsSpace(s[Len(s)]) THEN RStrip(SubSeq(s, 1, Len(s) - 1)) ELSE s

Strip(s) == RStrip(LStrip(s))

\* s[1:]
DropFirst(s) == IF s = <<>> THEN <<>> ELSE Tail(s)

StartsWith(s, c) == s # <<>> /\ Head(s) = c

\* str.split(sep): the pieces between the separators, empty pieces kept.
RECURSIVE SplitAcc(_, _, _)
SplitAcc(s, sep, piece) ==
  IF s = <<>> THEN <<piece>>
  ELSE IF Head(s) = sep THEN <<piece>> \o SplitAcc(Tail(s), sep, <<>>)
  ELSE SplitAcc(Tail(s), sep, Append(piece, Head(s)))

Split(s, sep) == SplitAcc(s, sep, <<>>)

\* ', '.join(list)
RECURSIVE Join(_)
Join(list) ==
  IF list = <<>> THEN <<>>
  ELSE IF Len(list) = 1 THEN list[1]
  ELSE list[1] \o <<",", SP>> \o Join(Tail(list))

LowerSet(list) == {Lower(list[i]) : i \in 1..Len(list)}

(* ------------------------------------------------------------------ *)
(* normalize_keywords                                                 *)
(* ------------------------------------------------------------------ *)
\* Mutant: the loop with the keyword itself as the key.
RECURSIVE DedupLoop_CaseSensitive(_, _, _)
DedupLoop_CaseSensitive(raw, seen, out) ==
  IF raw = <<>> THEN out
  ELSE IF Head(raw) \notin seen
       THEN DedupLoop_CaseSensitive(Tail(raw), seen \cup {Head(raw)},
                                    Append(out, Head(raw)))
       ELSE DedupLoop_CaseSensitive(Tail(raw), seen, out)

RECURSIVE DedupLoop(_, _, _)
DedupLoop(raw, seen, out) ==
  IF raw = <<>> THEN out
  ELSE LET it == Head(raw)
           key == Lower(it)
       IN IF key \notin seen
          THEN DedupLoop(Tail(raw), seen \cup {key}, Append(out, it))
          ELSE DedupLoop(Tail(raw), seen, out)

normalize_keywords(text) ==
  LET pieces == Split(text, ",")
      stripped == [i \in 1..Len(pieces) |-> Strip(pieces[i])]
      raw == SelectSeq(stripped, LAMBDA t : t # <<>>)
  IN DedupLoop(raw, {}, <<>>)

(* ------------------------------------------------------------------ *)
(* Keyword store                                                      *)
(* ------------------------------------------------------------------ *)
\* The in-memory key of an event that carries no userId (Python's None).
NoneId == "<None>"

EmptyMap == [k \in {} |-> [keywords |-> <<>>]]

\* What the file can hold for a user besides a record with a keyword list:
\* a JSON object without the key "keywords", and a JSON value that is not
\* an object (null, a list, a string, a number).
NoKeywordsRecord == [other |-> <<>>]
NonObjectRecord == [nonobject |-> TRUE]

\* What json.loads returns for a file that holds JSON other than an object
\* (a list, a string, a number, null): a value without the method get.
NonMapping == [k \in {"<not a dict>"} |-> NonObjectRecord]

\* json.dumps writes every key as a string: None becomes "null".  When the
\* dict holds both None and "null", "null" came from the file (load_users)
\* and None was inserted later, so on reading back the None entry wins.
DumpKey(k) == IF k = NoneId THEN "null" ELSE k

Dumps(data) ==
  [k \in {DumpKey(j) : j \in DOMAIN data} |->
     IF k = "null" /\ NoneId \in DOMAIN data THEN data[NoneId] ELSE data[k]]

VARIABLES
  file,           \* the persisted file at DATA_PATH
  accessToken,    \* LINE_CHANNEL_ACCESS_TOKEN
  channelSecret,  \* LINE_CHANNEL_SECRET
  running,        \* the request that holds the event loop, 0 if none
  req,            \* per request: position, inputs, in-memory mapping, result
  last,           \* the loop iteration that ran last, with the state before it
  lastWriter,     \* the request whose save_users wrote the file last, 0 if none
  lastSaved,      \* the mapping that save_users call was given
  everStored,     \* the keys the file has held at some time
  glist,          \* per user: the reply of its last list command since its
                  \* last add or remove command (any request)
  serial,         \* the mapping a store would hold had every command that
                  \* saved been applied to it in the order of the saves
  ntext,          \* a text given to normalize_keywords
  nout            \* what normalize_keywords returned for it, and for the
                  \* comma-joined result

vars ==
  <<file, accessToken, channelSecret, running, req, last, lastWriter,
    lastSaved, everStored, glist, serial, ntext, nout>>

\* load_users(), for a given content of the file.
\* Mutant: a load that finds no record.
load_users_Empty(f) == EmptyMap

\* "absent": DATA_PATH does not exist; "garbage": json.loads raises, and
\* the except clause returns {}; "nonmapping": json.loads returns a value
\* that is not a dict, and load_users returns it as it is.
load_users_of(f) ==
  IF f.kind = "json" THEN f.data
  ELSE IF f.kind = "nonmapping" THEN NonMapping
  ELSE EmptyMap

load_users == load_users_of(file)

\* Mutant: a save that keeps the records of the file that data lacks.
save_users_Merge(data) ==
  [kind |-> "json",
   data |-> [k \in DOMAIN file.data \cup DOMAIN Dumps(data) |->
               IF k \in DOMAIN Dumps(data) THEN Dumps(data)[k]
               ELSE file.data[k]]]

\* Mutant: a save that is put off: the file stays as it is.
save_users_Deferred(data) == file

\* The file after save_users(data).
save_users(data) == [kind |-> "json", data |-> Dumps(data)]

(* ------------------------------------------------------------------ *)
(* verify_signature                                                   *)
(* ------------------------------------------------------------------ *)
\* base64(HMAC-SHA256(secret, body)): one value per (secret, body), no
\* collisions.
HmacB64(secret, body) == <<"mac", secret, body>>

NoSig == <<"None">>          \* the header is absent
EmptyStr == <<>>             \* ""
NonAsciiSig == <<"nonascii">> \* a header value with a byte above 0x7f

IsAscii(sig) == sig # NonAsciiSig

\* "true", "false", or "raise": hmac.compare_digest on two str raises
\* TypeError("comparing strings with non-ASCII characters is not
\* supported") when one of them is not ASCII.
verify_signature(body, x_line_signature, channel_secret) ==
  IF channel_secret = "" THEN "true"
  ELSE LET calc == HmacB64(channel_secret, body)
           given == IF x_line_signature = NoSig THEN EmptyStr
                    ELSE x_line_signature
       IN IF ~IsAscii(given) THEN "raise"
          ELSE IF calc = given THEN "true" ELSE "false"

(* ------------------------------------------------------------------ *)
(* line_reply                                                         *)
(* ------------------------------------------------------------------ *)
MaxReplyLen == 5000

\* The text of the outbound payload: text[:5000].
line_reply_text(text) ==
  SubSeq(text, 1, IF Len(text) < MaxReplyLen THEN Len(text) ELSE MaxReplyLen)

\* Whether line_reply issues the outbound request (and so suspends).
line_reply_sends == accessToken # ""

\* What client.post can do: a 2xx response, a response with
\* status_code >= 300 (printed), or an httpx exception (network error,
\* timeout), which line_reply does not catch.
ReplyOutcomes == {"ok", "non2xx", "error"}

(* ------------------------------------------------------------------ *)
(* The command interpreter (one iteration of the loop of line_webhook) *)
(* ------------------------------------------------------------------ *)
W_list == <<"l", "i", "s", "t">>
W_keywords == <<"k", "e", "y", "w", "o", "r", "d", "s">>
W_kana == <<"ki", "chouon", "wa", "chouon", "do">>
ListWords == {W_list, W_keywords, W_kana}

\* cmd_lower.split(" ", 1)[0] if cmd_lower else ""
FirstToken(cmd_lower) ==
  IF cmd_lower = <<>> THEN <<>> ELSE Split(cmd_lower, SP)[1]

\* Mutant: a "+" or "-" anywhere in the text selects add or remove.
Classify_Contains(cmd_lower, first) ==
  IF \E i \in 1..Len(cmd_lower) : cmd_lower[i] = "+" THEN "add"
  ELSE IF \E i \in 1..Len(cmd_lower) : cmd_lower[i] = "-" THEN "remove"
  ELSE IF first \in ListWords THEN "list"
  ELSE "echo"

\* The branch of the dispatch that a command text takes.
Classify(cmd_lower, first) ==
  IF StartsWith(cmd_lower, "+") THEN "add"
  ELSE IF StartsWith(cmd_lower, "-") THEN "remove"
  ELSE IF first \in ListWords THEN "list"
  ELSE "echo"

\* The add loop: before is the lower-cased set, keywords the user's list.
RECURSIVE AddLoop(_, _, _, _)
AddLoop(kws, before, keywords, added) ==
  IF kws = <<>> THEN [keywords |-> keywords, report |-> added]
  ELSE LET k == Head(kws)
       IN IF Lower(k) \notin before
          THEN AddLoop(Tail(kws), before \cup {Lower(k)},
                       Append(keywords, k), Append(added, k))
          ELSE AddLoop(Tail(kws), before, keywords, added)

\* Mutant: the add loop without the membership test.
AddKeywords_NoCheck(keywords, kws) ==
  [keywords |-> keywords \o kws, report |-> kws]

\* Mutant: the add loop storing the lower-cased keyword.
AddKeywords_Lowered(keywords, kws) ==
  AddLoop([i \in 1..Len(kws) |-> Lower(kws[i])], LowerSet(keywords),
          keywords, <<>>)

AddKeywords(keywords, kws) == AddLoop(kws, LowerSet(keywords), keywords, <<>>)

\* Mutant: removal that compares without lower-casing.
RemoveKeywords_CaseSensitive(before_list, kws) ==
  LET to_remove == {kws[i] : i \in 1..Len(kws)}
  IN [keywords |-> SelectSeq(before_list, LAMBDA k : k \notin to_remove),
      report |-> SelectSeq(before_list, LAMBDA k : k \in to_remove)]

RemoveKeywords(before_list, kws) ==
  LET to_remove == LowerSet(kws)
  IN [keywords |-> SelectSeq(before_list, LAMBDA k : Lower(k) \notin to_remove),
      report |-> SelectSeq(before_list, LAMBDA k : Lower(k) \in to_remove)]

M_none == <<"(none)">>
JoinOr(list, marker) == IF Join(list) = <<>> THEN marker ELSE Join(list)

AddMsg(added, keywords) ==
  <<"Registered:">> \o JoinOr(added, <<"(no new)">>) \o <<NL, "Current:">>
    \o JoinOr(keywords, M_none)

RemoveMsg(removed, keywords) ==
  <<"Removed:">> \o JoinOr(removed, <<"(no match)">>) \o <<NL, "Current:">>
    \o JoinOr(keywords, M_none)

ListMsg(keywords) == <<"Current:">> \o JoinOr(keywords, M_none)

EchoMsg(text, user_id) == <<"Received:">> \o text \o <<NL, "userId:", user_id>>

GreetingMsg == <<"Greeting">>

NoMsg == <<>>

\* Mutant: the record is read from the file, not from the mapping that the
\* request holds.
GetRecord_FromFile(users, user_id) ==
  IF DumpKey(user_id) \in DOMAIN load_users
  THEN load_users[DumpKey(user_id)] ELSE [keywords |-> <<>>]

\* users.get(user_id, {"keywords": []})
GetRecord(users, user_id) ==
  IF user_id \in DOMAIN users THEN users[user_id] ELSE [keywords |-> <<>>]

\* Mutant: one default record shared by the users without keywords: what
\* is stored for one of them shows for all of them.
PutRecord_Shared(users, user_id, u) ==
  [k \in DOMAIN users \cup {user_id} |->
     IF k = user_id \/ users[k] = [keywords |-> <<>>] THEN u ELSE users[k]]

\* users[user_id] = u
PutRecord(users, user_id, u) ==
  [k \in DOMAIN users \cup {user_id} |-> IF k = user_id THEN u ELSE users[k]]

NoEffect(users, kind, user_id) ==
  [raise |-> FALSE, kind |-> kind, users |-> users, wrote |-> FALSE,
   reply |-> FALSE, msg |-> NoMsg, userId |-> user_id, before |-> <<>>,
   report |-> <<>>]

Raises(users) ==
  [raise |-> TRUE, kind |-> "raise", users |-> users, wrote |-> FALSE,
   reply |-> FALSE, msg |-> NoMsg, userId |-> NoneId, before |-> <<>>,
   report |-> <<>>]

\* An exception raised by the use of what load_users returned: users.get
\* on a value that is not a dict (AttributeError, line 126), u["keywords"]
\* on a record without that key (KeyError, lines 132 and 153) or on a
\* record that is not a dict (TypeError), u.get on a record that is not
\* a dict (AttributeError, line 170).
RaisesStore(users) == [Raises(users) EXCEPT !.kind = "raise_store"]

\* u["keywords"] where the record has it.
RecordKeywords(u) == IF "keywords" \in DOMAIN u THEN u.keywords ELSE <<>>

\* Whether the branch `kind` raises on the record u.
RecordRaises(u, kind) ==
  \/ u = NonObjectRecord /\ kind \in {"add", "remove", "list"}
  \/ u = NoKeywordsRecord /\ kind \in {"add", "remove"}

\* Mutant: the list branch storing the record it looked up.
ListBranch_Stores(base, user_id, u) ==
  [base EXCEPT !.msg = ListMsg(RecordKeywords(u)),
               !.users = [k \in DOMAIN base.users \cup {user_id} |->
                            IF k = user_id THEN u ELSE base.users[k]]]

\* The list branch, lines 166-172: the reply, and nothing stored.
\* u.get('keywords', []) is the empty list for a record without the key.
ListBranch(base, user_id, u) ==
  [base EXCEPT !.msg = ListMsg(RecordKeywords(u))]

\* The message branch, lines 115-175.
ProcessMessage(users, user_id, text) ==
  LET raw == text
      cmd == Strip(Replace(raw, FWSP, SP))
      cmd_lower == Lower(cmd)
      first == FirstToken(cmd_lower)
      u == GetRecord(users, user_id)
      kind == Classify(cmd_lower, first)
      base == [NoEffect(users, kind, user_id) EXCEPT
                 !.reply = TRUE, !.before = RecordKeywords(u)]
  IN CASE users = NonMapping -> RaisesStore(users)
       [] users # NonMapping /\ RecordRaises(u, kind) -> RaisesStore(users)
       [] users # NonMapping /\ ~RecordRaises(u, kind) /\ kind = "add" ->
            LET res == AddKeywords(u.keywords, normalize_keywords(DropFirst(cmd)))
            IN [base EXCEPT
                  !.users = PutRecord(users, user_id, [keywords |-> res.keywords]),
                  !.wrote = TRUE, !.report = res.report,
                  !.msg = AddMsg(res.report, res.keywords)]
       [] users # NonMapping /\ ~RecordRaises(u, kind) /\ kind = "remove" ->
            LET res == RemoveKeywords(u.keywords, normalize_keywords(DropFirst(cmd)))
            IN [base EXCEPT
                  !.users = PutRecord(users, user_id, [keywords |-> res.keywords]),
                  !.wrote = TRUE, !.report = res.report,
                  !.msg = RemoveMsg(res.report, res.keywords)]
       [] users # NonMapping /\ ~RecordRaises(u, kind) /\ kind = "list" ->
            ListBranch(base, user_id, u)
       [] OTHER -> [base EXCEPT !.msg = EchoMsg(text, user_id)]

\* The branch that lines 118-175 take for a text.
CommandKind(text) ==
  LET cmd_lower == Lower(Strip(Replace(text, FWSP, SP)))
  IN Classify(cmd_lower, FirstToken(cmd_lower))

\* One iteration of the loop over the events, lines 97-175: what it does to
\* the in-memory mapping, whether it saves, and the reply it passes to
\* line_reply.  An event that is not an object, a source or a message that
\* is present and not an object, and a text that is not a string raise
\* AttributeError (no handler catches it).
ProcessEvent(users, ev) ==
  IF ev.shape # "object" THEN Raises(users)
  ELSE IF ev.source = "nonobject" THEN Raises(users)
  ELSE LET user_id == IF ev.source = "object" THEN ev.userId ELSE NoneId
       IN IF ev.type = "message" /\ ev.message = "nonobject" THEN Raises(users)
          ELSE IF ev.type = "follow" /\ ev.token
               THEN [NoEffect(users, "follow", user_id) EXCEPT
                       !.reply = TRUE, !.msg = GreetingMsg]
          ELSE IF ev.type = "message" /\ ev.token
               THEN IF ev.message = "object" /\ ~ev.textIsStr THEN Raises(users)
                    ELSE ProcessMessage(users, user_id,
                           IF ev.message = "object" THEN ev.text ELSE <<>>)
          ELSE NoEffect(users, "ignored", user_id)

(* ------------------------------------------------------------------ *)
(* Inputs                                                             *)
(* ------------------------------------------------------------------ *)
UserIds == {"U1", "U2", NoneId}
RealUsers == {"U1", "U2"}

T_AddXy == <<"+", "X", ",", SP, "y">>
T_AddxZ == <<"+", "x", ",", SP, "Z">>
T_AddEmpty == <<"+">>
T_AddList == <<SP, "+", "l", "i", "s", "t">>
T_RemX == <<"-", "X">>
T_RemxQ == <<"-", "x", ",", "q">>
T_RemEmpty == <<"-">>
T_List == <<"l", "i", "s", "t">>
T_ListUpper == <<"L", "I", "S", "T">>
T_ListPlus == <<"l", "i", "s", "t", SP, "+", "x">>
T_ListFw == <<FWSP, "l", "i", "s", "t", FWSP, "-", "X">>
T_ListTab == <<"l", "i", "s", "t", TAB, "x">>
T_ListNl == <<"L", "i", "s", "t", NL, "x">>
T_Keywords == W_keywords
T_Kana == W_kana
T_Lists == <<"l", "i", "s", "t", "s">>
T_Hi == <<"h", "i", SP>>
T_Empty == <<>>

AddTexts == {T_AddXy, T_AddxZ, T_AddEmpty, T_AddList}
RemoveTexts == {T_RemX, T_RemxQ, T_RemEmpty}
ListTexts == {T_List, T_ListUpper, T_ListPlus, T_ListFw, T_Keywords, T_Kana}
EchoTexts == {T_ListTab, T_ListNl, T_Lists, T_Hi, T_Empty}
Texts == AddTexts \cup RemoveTexts \cup ListTexts \cup EchoTexts

MsgEvent(uid, tok, text) ==
  [shape |-> "object", type |-> "message",
   source |-> IF uid = NoneId THEN "missing" ELSE "object", userId |-> uid,
   token |-> tok, message |-> "object", textIsStr |-> TRUE, text |-> text]

OtherEvent(type, uid, tok) ==
  [MsgEvent(uid, tok, <<>>) EXCEPT !.type = type, !.message = "missing"]

\* Events that are not what the platform documents.
NonObjectEvent == [MsgEvent("U1", TRUE, T_AddXy) EXCEPT !.shape = "nonobject"]
BadSourceEvent == [MsgEvent("U1", TRUE, T_AddXy) EXCEPT !.source = "nonobject"]
BadMessageEvent == [MsgEvent("U1", TRUE, <<>>) EXCEPT !.message = "nonobject"]
NoMessageEvent == [MsgEvent("U1", TRUE, <<>>) EXCEPT !.message = "missing"]
NonStrTextEvent == [MsgEvent("U1", TRUE, <<>>) EXCEPT !.textIsStr = FALSE]
MalformedEvents ==
  {NonObjectEvent, BadSourceEvent, BadMessageEvent, NonStrTextEvent}

\* The events of the concurrent runs.
Events ==
  {MsgEvent("U1", TRUE, text) : text \in {T_AddXy, T_AddxZ, T_RemX, T_List, T_Hi}}
    \cup {MsgEvent("U2", TRUE, T_AddXy), MsgEvent("U1", FALSE, T_AddXy)}
    \cup {OtherEvent("follow", "U1", TRUE), OtherEvent("unfollow", "U1", TRUE)}
    \cup {NonObjectEvent, BadSourceEvent}

\* The events of the single-request runs: every text, every kind of event.
CmdEvents ==
  {MsgEvent("U1", TRUE, text) : text \in Texts}
    \cup {MsgEvent(uid, TRUE, text) : uid \in {"U2", NoneId},
                                     text \in {T_AddXy, T_RemX, T_List, T_Hi}}
    \cup {MsgEvent("U1", FALSE, T_AddXy), MsgEvent("U1", FALSE, T_RemX)}
    \cup {OtherEvent("follow", "U1", tok) : tok \in BOOLEAN}
    \cup {OtherEvent("unfollow", "U1", TRUE), NoMessageEvent}
    \cup MalformedEvents

\* The request body: not JSON, JSON that is not an object, or an object
\* whose events list holds n events.
NotJsonBody == <<"notjson", 0>>
NonObjectBody == <<"nonobject", 0>>
BatchBody(n) == <<"batch", n>>
BodiesUpTo(max) == {NotJsonBody, NonObjectBody} \cup {BatchBody(n) : n \in 0..max}
NoBody == <<"none", 0>>

\* The bodies of the concurrent runs and of the single-request runs.
Bodies == BodiesUpTo(MaxEvents)
CmdBodies == BodiesUpTo(MaxCmdEvents)

Secrets == {"", "S1"}
AccessTokens == {"", "tok"}

\* The x-line-signature headers tried with a body: none, a non-ASCII one,
\* the right one, one made with another key, one made for another body.
SigsFor(body) ==
  {NoSig, NonAsciiSig, HmacB64("S1", body), HmacB64("S2", body),
   HmacB64("S1", NoBody)}

(* ------------------------------------------------------------------ *)
(* State                                                              *)
(* ------------------------------------------------------------------ *)
AbsentFile == [kind |-> "absent", data |-> EmptyMap]

NoList == [u \in RealUsers |-> NoMsg]

\* `last` when no step has run, and the fields a step does not set.
NoLast ==
  [step |-> "none", req |-> 0, body |-> NoBody, sig |-> NoSig,
   verdict |-> "none", loaded |-> FALSE,
   kind |-> "none", ev |-> OtherEvent("none", NoneId, FALSE),
   userId |-> NoneId, before |-> <<>>, report |-> <<>>, msg |-> NoMsg,
   called |-> FALSE, sent |-> NoMsg, wrote |-> FALSE, outcome |-> "none",
   usersBefore |-> EmptyMap, fileBefore |-> AbsentFile,
   prevR |-> NoMsg, prevG |-> NoMsg,
   idx |-> 0, ncalls |-> 0, loads |-> 0, writes |-> 0, muts |-> 0]

\* loads and writes count the calls of load_users and save_users of the
\* request; muts counts the events it has taken from the batch that are
\* message events with a reply token whose text is an add or remove command.
IdleReq ==
  [pc |-> "idle", n |-> 0, idx |-> 0, users |-> EmptyMap, rlist |-> NoList,
   status |-> 0, fault |-> "none", loads |-> 0, writes |-> 0, muts |-> 0]

\* nout before normalize_keywords has run.
NotRun == [stage |-> 0, first |-> <<>>, second |-> <<>>]

Init ==
  /\ file \in {AbsentFile, [kind |-> "json", data |-> EmptyMap]}
  /\ accessToken \in AccessTokens
  /\ channelSecret \in Secrets
  /\ running = 0
  /\ req = [r \in Reqs |-> IdleReq]
  /\ last = NoLast
  /\ lastWriter = 0
  /\ lastSaved = EmptyMap
  /\ everStored = {}
  /\ glist = NoList
  /\ serial = EmptyMap
  /\ ntext = <<>>
  /\ nout = NotRun

\* The end of a request: its response; its locals are gone.
Ended(q, status, fault) ==
  [q EXCEPT !.pc = "done", !.status = status, !.fault = fault,
            !.users = EmptyMap, !.rlist = NoList,
            !.loads = 0, !.writes = 0, !.muts = 0]

\* Lines 84-95 for a request with this body and this x-line-signature
\* header: decode the body, verify the signature, load the store, read the
\* events of the payload.
BeginResult(q, body, sig) ==
  LET verdict == verify_signature(body, sig, channelSecret)
  IN IF body = NotJsonBody THEN Ended(q, 400, "none")
     ELSE IF verdict = "raise" THEN Ended(q, 500, "signature")
     ELSE IF verdict = "false" THEN Ended(q, 400, "none")
     ELSE IF body = NonObjectBody THEN Ended(q, 500, "payload")
     ELSE [q EXCEPT !.pc = "loop", !.n = body[2], !.users = load_users,
                    !.loads = @ + 1]

\* Whether lines 84-95 reach load_users (line 95).
BeginLoads(body, sig) ==
  body # NotJsonBody /\ verify_signature(body, sig, channelSecret) = "true"

\* A request arrives and its body has been read (await request.body()):
\* the handler runs up to the loop over the events.
BeginOf(r, bodies) ==
  /\ running = 0
  /\ req[r].pc = "idle"
  /\ \E body \in bodies : \E sig \in SigsFor(body) :
     \E q \in {BeginResult(req[r], body, sig)} :
       /\ req' = [req EXCEPT ![r] = q]
       /\ running' = IF q.pc = "loop" THEN r ELSE 0
       /\ last' = [NoLast EXCEPT
            !.step = "begin", !.req = r, !.body = body, !.sig = sig,
            !.verdict = IF body = NotJsonBody THEN "none"
                        ELSE verify_signature(body, sig, channelSecret),
            !.loaded = BeginLoads(body, sig),
            !.loads = IF BeginLoads(body, sig) THEN 1 ELSE 0,
            !.fileBefore = file]
  /\ UNCHANGED <<file, accessToken, channelSecret, lastWriter, lastSaved,
                 everStored, glist, serial, ntext, nout>>

Begin(r) == BeginOf(r, Bodies)

\* Whether an event is a message event with a reply token whose text is an
\* add or remove command.
IsCommandEvent(ev) ==
  /\ ev.shape = "object" /\ ev.type = "message" /\ ev.token
  /\ ev.message = "object" /\ ev.textIsStr
  /\ CommandKind(ev.text) \in {"add", "remove"}

\* One iteration of the loop, up to the await in line_reply (or through
\* line_reply, when it returns without sending).
HandleEventOf(r, events) ==
  /\ running = r
  /\ req[r].pc = "loop"
  /\ req[r].idx < req[r].n
  /\ \E ev \in events : \E out \in {ProcessEvent(req[r].users, ev)} :
       LET q == req[r]
           u == out.userId
           mutates == out.kind \in {"add", "remove"}
           lists == out.kind = "list" /\ u \in RealUsers
           sends == out.reply /\ line_reply_sends
           muts == IF IsCommandEvent(ev) THEN q.muts + 1 ELSE q.muts
           writes == IF out.wrote THEN q.writes + 1 ELSE q.writes
           step == [NoLast EXCEPT
                      !.step = "event", !.req = r, !.ev = ev, !.idx = q.idx,
                      !.usersBefore = q.users, !.fileBefore = file,
                      !.loads = q.loads, !.writes = writes, !.muts = muts]
       IN IF out.raise
          THEN /\ req' = [req EXCEPT ![r] =
                   Ended(q, 500, IF out.kind = "raise_store" THEN "store"
                                 ELSE "event")]
               /\ last' = [step EXCEPT !.kind = out.kind]
               /\ running' = 0
               /\ UNCHANGED <<file, lastWriter, lastSaved, everStored, glist,
                              serial>>
          ELSE /\ req' = [req EXCEPT ![r] =
                   [q EXCEPT
                      !.users = out.users,
                      !.writes = writes,
                      !.muts = muts,
                      !.pc = IF sends THEN "reply" ELSE "loop",
                      !.idx = IF sends THEN @ ELSE @ + 1,
                      !.rlist = IF mutates /\ u \in RealUsers
                                THEN [@ EXCEPT ![u] = NoMsg]
                                ELSE IF lists THEN [@ EXCEPT ![u] = out.msg]
                                ELSE @]]
               /\ last' =
                   [step EXCEPT
                      !.kind = out.kind, !.userId = u, !.before = out.before,
                      !.report = out.report, !.msg = out.msg,
                      !.called = out.reply,
                      !.ncalls = IF out.reply THEN 1 ELSE 0,
                      !.sent = IF sends THEN line_reply_text(out.msg) ELSE NoMsg,
                      !.wrote = out.wrote,
                      !.prevR = IF lists THEN q.rlist[u] ELSE NoMsg,
                      !.prevG = IF lists THEN glist[u] ELSE NoMsg]
               /\ file' = IF out.wrote THEN save_users(out.users) ELSE file
               /\ lastWriter' = IF out.wrote THEN r ELSE lastWriter
               /\ lastSaved' = IF out.wrote THEN out.users ELSE lastSaved
               /\ everStored' = IF out.wrote
                                THEN everStored \cup DOMAIN save_users(out.users).data
                                ELSE everStored
               /\ glist' = IF mutates /\ u \in RealUsers
                           THEN [glist EXCEPT ![u] = NoMsg]
                           ELSE IF lists THEN [glist EXCEPT ![u] = out.msg]
                           ELSE glist
               /\ serial' = IF out.wrote
                            THEN Dumps(ProcessEvent(serial, ev).users)
                            ELSE serial
               /\ running' = IF sends THEN 0 ELSE r
  /\ UNCHANGED <<accessToken, channelSecret, ntext, nout>>

HandleEvent(r) == HandleEventOf(r, Events)

\* client.post returns or raises: the request resumes after the await.
ReplyReturn(r) ==
  /\ running = 0
  /\ req[r].pc = "reply"
  /\ \E outcome \in ReplyOutcomes :
       /\ IF outcome = "error"
          THEN /\ req' = [req EXCEPT ![r] = Ended(req[r], 500, "reply")]
               /\ running' = 0
          ELSE /\ req' = [req EXCEPT ![r].pc = "loop", ![r].idx = @ + 1]
               /\ running' = r
       /\ last' = [NoLast EXCEPT !.step = "resume", !.req = r,
                                 !.idx = req[r].idx,
                                 !.outcome = outcome, !.fileBefore = file,
                                 !.loads = req[r].loads,
                                 !.writes = req[r].writes,
                                 !.muts = req[r].muts]
  /\ UNCHANGED <<file, accessToken, channelSecret, lastWriter, lastSaved,
                 everStored, glist, serial, ntext, nout>>

\* Line 177: the loop is over, the handler returns {"status": "ok"}.
Finish(r) ==
  /\ running = r
  /\ req[r].pc = "loop"
  /\ req[r].idx = req[r].n
  /\ req' = [req EXCEPT ![r] = Ended(req[r], 200, "none")]
  /\ last' = [NoLast EXCEPT !.step = "finish", !.req = r, !.fileBefore = file,
                            !.idx = req[r].idx,
                            !.loads = req[r].loads, !.writes = req[r].writes,
                            !.muts = req[r].muts]
  /\ running' = 0
  /\ UNCHANGED <<file, accessToken, channelSecret, lastWriter, lastSaved,
                 everStored, glist, serial, ntext, nout>>

Next ==
  \E r \in Reqs :
    \/ Begin(r)
    \/ HandleEvent(r)
    \/ ReplyReturn(r)
    \/ Finish(r)

Spec == Init /\ [][Next]_vars

\* One request at a time, with every text and every kind of event.
NextCmd ==
  \/ BeginOf(1, CmdBodies)
  \/ HandleEventOf(1, CmdEvents)
  \/ ReplyReturn(1)
  \/ Finish(1)

SpecCmd == Init /\ [][NextCmd]_vars

\* What DATA_PATH can hold when the service starts: nothing, text that
\* json.loads rejects, JSON that is not an object, an object whose record
\* for U1 lacks "keywords" or is not an object, and a well-formed store.
StoreFiles ==
  {AbsentFile,
   [kind |-> "garbage", data |-> EmptyMap],
   [kind |-> "nonmapping", data |-> EmptyMap],
   [kind |-> "json", data |-> [k \in {"U1"} |-> NoKeywordsRecord]],
   [kind |-> "json", data |-> [k \in {"U1"} |-> NonObjectRecord]],
   [kind |-> "json", data |-> [k \in {"U1"} |-> [keywords |-> <<<<"X">>, <<"y">>>>]]]}

InitStore ==
  /\ file \in StoreFiles
  /\ accessToken \in AccessTokens
  /\ channelSecret \in Secrets
  /\ running = 0
  /\ req = [r \in Reqs |-> IdleReq]
  /\ last = NoLast
  /\ lastWriter = 0
  /\ lastSaved = EmptyMap
  /\ everStored = {}
  /\ glist = NoList
  /\ serial = IF file.kind = "json" THEN file.data ELSE EmptyMap
  /\ ntext = <<>>
  /\ nout = NotRun

\* One request, started on a store in any of these conditions.
SpecStore == InitStore /\ [][NextCmd]_vars

\* Requests handled one after the other: a request starts only when no
\* other request is in progress.
BeginAlone(r) ==
  /\ \A q \in Reqs \ {r} : req[q].pc \in {"idle", "done"}
  /\ Begin(r)

NextSeq ==
  \E r \in Reqs :
    \/ BeginAlone(r)
    \/ HandleEvent(r)
    \/ ReplyReturn(r)
    \/ Finish(r)

SpecSeq == Init /\ [][NextSeq]_vars

\* normalize_keywords on its own: every text of up to MaxNormLen
\* characters over commas, three kinds of whitespace and letters in both
\* cases; then normalize_keywords on the joined result.
NormChars == {",", SP, TAB, "x", "X", "y"}
NormTexts == UNION {[1..n -> NormChars] : n \in 0..MaxNormLen}

InitNorm ==
  /\ file = AbsentFile
  /\ accessToken = ""
  /\ channelSecret = ""
  /\ running = 0
  /\ req = [r \in Reqs |-> IdleReq]
  /\ last = NoLast
  /\ lastWriter = 0
  /\ lastSaved = EmptyMap
  /\ everStored = {}
  /\ glist = NoList
  /\ serial = EmptyMap
  /\ ntext \in NormTexts
  /\ nout = NotRun

Normalize ==
  /\ nout.stage = 0
  /\ nout' = [nout EXCEPT !.stage = 1, !.first = normalize_keywords(ntext)]
  /\ UNCHANGED <<file, accessToken, channelSecret, running, req, last,
                 lastWriter, lastSaved, everStored, glist, serial, ntext>>

Renormalize ==
  /\ nout.stage = 1
  /\ nout' = [nout EXCEPT !.stage = 2,
                          !.second = normalize_keywords(Join(nout.first))]
  /\ UNCHANGED <<file, accessToken, channelSecret, running, req, last,
                 lastWriter, lastSaved, everStored, glist, serial, ntext>>

NextNorm == Normalize \/ Renormalize

SpecNorm == InitNorm /\ [][NextNorm]_vars

(* ------------------------------------------------------------------ *)
(* Properties                                                         *)
(* ------------------------------------------------------------------ *)
AllDone == \A r \in Reqs : req[r].pc = "done"

UserList(m, u) == IF u \in DOMAIN m THEN m[u].keywords ELSE <<>>

NoCaseDup(list) ==
  \A i, j \in 1..Len(list) : i # j => Lower(list[i]) # Lower(list[j])

\* The operand of an add or remove command: the text after its first
\* character, once full-width spaces are converted and the text trimmed.
Operand(text) == DropFirst(Strip(Replace(text, FWSP, SP)))

K_X == <<"X">>
K_y == <<"y">>
K_Z == <<"Z">>

\* C1: from an empty or absent store, every keyword list of the persisted
\* mapping holds no two entries that are equal ignoring case.
C1_NoCaseDuplicates ==
  \A u \in DOMAIN file.data : NoCaseDup(file.data[u].keywords)

\* C1 witness: "+x, Z" was added to the stored list [X, y], and the file
\* holds [X, y, Z].
C1_Witness ==
  /\ last.kind = "add"
  /\ last.ev.text = T_AddxZ
  /\ last.before = <<K_X, K_y>>
  /\ UserList(file.data, "U1") = <<K_X, K_y, K_Z>>

\* C2: the file is the full in-memory mapping of the request that saved
\* last (as json.dumps writes it), and that request still holds that
\* mapping while it runs.
C2_LastWriterWins ==
  lastWriter # 0 =>
    /\ file.kind = "json"
    /\ file.data = Dumps(lastSaved)
    /\ req[lastWriter].pc \in {"loop", "reply"} =>
         req[lastWriter].users = lastSaved

\* C2 witness: both requests are acknowledged, each saved a record for a
\* different user, and the file lacks the record of U1 that the earlier
\* save stored: a lost update.
C2_LostUpdate ==
  /\ AllDone
  /\ \A r \in Reqs : req[r].status = 200
  /\ "U1" \in everStored
  /\ "U1" \notin DOMAIN file.data
  /\ "U2" \in DOMAIN file.data

\* C3: a request that passed JSON decoding and signature verification
\* ends, whatever the outcomes of its replies, with status 200 and with
\* every event of the batch processed.
C3_ReplyOutcomeNeverFails ==
  \A r \in Reqs :
    (req[r].pc = "done" /\ req[r].status # 400
       /\ req[r].fault \notin {"signature", "payload", "event"})
      => (req[r].status = 200 /\ req[r].idx = req[r].n)

\* C4: a malformed event is skipped: the request goes on with the next
\* event (or returns 200), and the event changes nothing.
C4_MalformedEventSkipped ==
  (last.step = "event" /\ last.ev \in MalformedEvents) =>
    /\ req[last.req].pc = "loop"
    /\ req[last.req].status # 500
    /\ file = last.fileBefore

\* C5: a request is answered with 400 exactly when its body is not valid
\* JSON or, with a secret configured, its signature does not match; and a
\* request answered with 400 has not loaded or written the store, processed
\* no event and sent no reply.
C5_Status400Exactly ==
  last.step = "begin" =>
    LET q == req[last.req]
        mismatch == /\ channelSecret # ""
                    /\ last.sig # HmacB64(channelSecret, last.body)
    IN /\ (q.status = 400) <=> (last.body = NotJsonBody \/ mismatch)
       /\ q.status = 400 =>
            /\ ~last.loaded
            /\ file = last.fileBefore
            /\ q.pc = "done" /\ q.idx = 0

\* C6: verify_signature is true for every body and signature when the
\* secret is empty; with a secret it is true only for the base64
\* HMAC-SHA256 of the body under that secret and false for a missing or
\* different signature, and a request with a wrong signature processes
\* no event.
C6_VerifySignature ==
  (last.step = "begin" /\ last.body # NotJsonBody) =>
    LET right == last.sig = HmacB64(channelSecret, last.body)
    IN /\ channelSecret = "" => last.verdict = "true"
       /\ channelSecret # "" =>
            /\ last.verdict = "true" <=> right
            /\ ~right => last.verdict = "false"
            /\ ~right => (req[last.req].pc = "done" /\ ~last.loaded)

\* C7: an add command appends to the user's list exactly the normalized
\* operand keywords that the list does not hold ignoring case, in operand
\* order and in their casing; the entries of the list keep their places;
\* the reported added list is the appended entries; the file holds the
\* new list.  "+x, Z" on [X, y] gives [X, y, Z] and reports [Z].
C7_AddAppends ==
  (last.step = "event" /\ last.kind = "add") =>
    LET u == last.userId
        before == UserList(last.usersBefore, u)
        after == UserList(req[last.req].users, u)
        kws == normalize_keywords(Operand(last.ev.text))
        fresh == SelectSeq(kws, LAMBDA k : Lower(k) \notin LowerSet(before))
    IN /\ last.before = before
       /\ after = before \o fresh
       /\ last.report = fresh
       /\ UserList(file.data, DumpKey(u)) = after
       /\ (before = <<K_X, K_y>> /\ last.ev.text = T_AddxZ) =>
            (after = <<K_X, K_y, K_Z>> /\ last.report = <<K_Z>>)

\* C7 witness: "+x, Z" after "+X, y": the list is [X, y, Z], Z is reported.
C7_Witness ==
  /\ last.kind = "add"
  /\ last.ev.text = T_AddxZ
  /\ last.before = <<K_X, K_y>>
  /\ last.report = <<K_Z>>
  /\ UserList(req[last.req].users, last.userId) = <<K_X, K_y, K_Z>>

\* The entries of list whose lower-cased form is (keep = FALSE) or is not
\* (keep = TRUE) in the set keys, in the order of list.
RECURSIVE Filtered(_, _, _)
Filtered(list, keys, keep) ==
  IF list = <<>> THEN <<>>
  ELSE IF (Lower(Head(list)) \notin keys) = keep
       THEN <<Head(list)>> \o Filtered(Tail(list), keys, keep)
       ELSE Filtered(Tail(list), keys, keep)

\* C8: a remove command leaves the entries of the list whose lower-cased
\* form is not a lower-cased normalized operand keyword, and reports the
\* others, both in the order and casing of the list before; operand
\* keywords that the list does not hold change nothing.  "-X" on
\* [X, y, Z] gives [y, Z] and reports [X].
C8_RemoveFilters ==
  (last.step = "event" /\ last.kind = "remove") =>
    LET u == last.userId
        before == UserList(last.usersBefore, u)
        after == UserList(req[last.req].users, u)
        keys == LowerSet(normalize_keywords(Operand(last.ev.text)))
    IN /\ last.before = before
       /\ after = Filtered(before, keys, TRUE)
       /\ last.report = Filtered(before, keys, FALSE)
       /\ UserList(file.data, DumpKey(u)) = after
       /\ keys \cap LowerSet(before) = {} => after = before
       /\ (before = <<K_X, K_y, K_Z>> /\ last.ev.text = T_RemX) =>
            (after = <<K_y, K_Z>> /\ last.report = <<K_X>>)

\* C8 witness: "-X" on [X, y, Z].
C8_Witness ==
  /\ last.kind = "remove"
  /\ last.ev.text = T_RemX
  /\ last.before = <<K_X, K_y, K_Z>>
  /\ last.report = <<K_X>>
  /\ UserList(file.data, last.userId) = <<K_y, K_Z>>

ExpectedKind(text) ==
  LET t == Strip(Replace(text, FWSP, SP))
      token == IF t = <<>> THEN <<>> ELSE Lower(Split(t, SP)[1])
  IN IF t # <<>> /\ t[1] = "+" THEN "add"
     ELSE IF t # <<>> /\ t[1] = "-" THEN "remove"
     ELSE IF token \in {W_list, W_keywords, W_kana} THEN "list"
     ELSE "echo"

\* C10: a message text takes exactly the branch of the first match among
\* add ("+" first, also "+list"), remove ("-" first), list (first token a
\* list synonym, also "list +x") and echo; list and echo change nothing;
\* echo replies with the text as received and the sender's userId.
C10_Dispatch ==
  (last.step = "event" /\ last.kind \in {"add", "remove", "list", "echo"}) =>
    LET text == last.ev.text
    IN /\ last.kind = ExpectedKind(text)
       /\ text \in AddTexts => last.kind = "add"
       /\ text \in RemoveTexts => last.kind = "remove"
       /\ text \in {T_List, T_ListUpper, T_ListPlus, T_ListFw, T_Keywords, T_Kana}
            => last.kind = "list"
       /\ last.kind \in {"list", "echo"} =>
            /\ file = last.fileBefore
            /\ req[last.req].users = last.usersBefore
            /\ ~last.wrote
       /\ last.kind = "echo" =>
            last.msg = <<"Received:">> \o text \o <<NL, "userId:", last.userId>>

\* C10 witness: "list +x" from a user with keywords is answered with the
\* list.
C10_Witness ==
  /\ last.kind = "list"
  /\ last.ev.text = T_ListPlus
  /\ last.before # <<>>
  /\ last.msg = ListMsg(last.before)

\* C11: in every accepted request the store has been loaded exactly once
\* when the first event is taken, and the number of writes of the file is
\* the number of events taken from the batch that are message events with
\* a reply token whose text is an add or remove command (an empty operand
\* included); no other event writes.
C11_LoadOnceWritesCounted ==
  /\ (last.step = "begin" /\ last.verdict = "true") => last.loads = 1
  /\ last.step \in {"event", "resume", "finish"} =>
       /\ last.loads = 1
       /\ last.writes = last.muts
       /\ last.wrote <=> (last.step = "event" /\ IsCommandEvent(last.ev))

\* C11 for the events that raise nothing: the same count.
C11_CountedUnlessRaised ==
  (last.step \in {"event", "resume", "finish"} /\ last.kind # "raise") =>
    /\ last.loads = 1
    /\ last.writes = last.muts
    /\ last.wrote <=> (last.step = "event" /\ IsCommandEvent(last.ev))

\* C11: a request of two events, both add or remove commands, returns
\* 200 after two writes.
C11_TwoWrites ==
  /\ last.step = "finish"
  /\ last.writes = 2
  /\ last.muts = 2

\* C12: the events of a request are taken one at a time in payload order:
\* an event is taken only when the request is in the loop (no reply call
\* pending), it is the event at the request's index, the index moves by
\* one, nothing of the request changes while its reply call is pending,
\* and the command reads the user's list from the mapping as the earlier
\* events of the request left it.
C12_Sequential ==
  [][\A r \in Reqs :
       /\ (last'.step = "event" /\ last'.req = r) =>
            /\ req[r].pc = "loop"
            /\ last'.idx = req[r].idx
            /\ last'.usersBefore = req[r].users
            /\ last'.kind \in {"add", "remove", "list"} =>
                 last'.before = UserList(req[r].users, last'.userId)
            /\ req'[r].pc = "loop" => req'[r].idx = req[r].idx + 1
            /\ req'[r].pc = "reply" => req'[r].idx = req[r].idx
       /\ req[r].pc = "reply" =>
            \/ req'[r] = req[r]
            \/ /\ last'.step = "resume" /\ last'.req = r
               /\ req'[r].users = req[r].users \/ req'[r].pc = "done"
               /\ req'[r].pc = "loop" => req'[r].idx = req[r].idx + 1
       /\ last'.req # r => req'[r] = req[r]]_vars

\* C12 witness: the second event of a request adds "+x, Z" to the list
\* [X, y] that the first event left in memory, although another request
\* has since written a file that lacks it.
C12_Witness ==
  /\ last.step = "event"
  /\ last.idx = 1
  /\ last.ev.text = T_AddxZ
  /\ last.before = <<K_X, K_y>>
  /\ "U1" \notin DOMAIN last.fileBefore.data

\* C13: an event makes at most one reply call: exactly one when it is a
\* follow event or a message event with a reply token, none otherwise;
\* an event without a reply token changes neither the mapping nor the
\* file.
C13_OneReplyPerEvent ==
  last.step = "event" =>
    LET ev == last.ev
        due == /\ ev.shape = "object"
               /\ ev.type \in {"follow", "message"}
               /\ ev.token
    IN /\ last.ncalls <= 1
       /\ (last.ncalls = 1) <=> due
       /\ (ev.shape = "object" /\ ~ev.token) =>
            /\ file = last.fileBefore
            /\ req[last.req].users = last.usersBefore

\* C13 for the events that raise nothing.
C13_OneReplyUnlessRaised ==
  (last.step = "event" /\ last.kind # "raise") =>
    LET ev == last.ev
    IN /\ last.ncalls <= 1
       /\ (last.ncalls = 1) <=> (ev.type \in {"follow", "message"} /\ ev.token)
       /\ ~ev.token =>
            /\ file = last.fileBefore
            /\ req[last.req].users = last.usersBefore

WellFormedStore(f) ==
  /\ f.kind = "json"
  /\ \A k \in DOMAIN f.data : "keywords" \in DOMAIN f.data[k]

\* C14: whatever the file holds when a request starts, no request fails
\* because of the store, and a file that is absent, unparseable or not a
\* mapping of records with a keyword list is loaded as the empty mapping.
C14_StoreNeverFailsRequest ==
  /\ \A r \in Reqs : req[r].fault # "store"
  /\ (last.step = "begin" /\ last.loaded /\ req[last.req].pc = "loop"
        /\ ~WellFormedStore(last.fileBefore))
       => req[last.req].users = EmptyMap

\* C15: with no access token no reply request is made (no request waits
\* for one), every add and remove command still saves the mapping with
\* the user's new list, and every request that passed the signature
\* check and whose body is an object is answered with 200.
C15_NoTokenStillProcesses ==
  accessToken = "" =>
    /\ \A r \in Reqs : req[r].pc # "reply"
    /\ last.step = "event" =>
         /\ last.sent = NoMsg
         /\ IsCommandEvent(last.ev) =>
              /\ last.wrote
              /\ file = save_users(ProcessEvent(last.usersBefore, last.ev).users)
    /\ \A r \in Reqs :
         (req[r].pc = "done" /\ req[r].status # 400
            /\ req[r].fault \notin {"signature", "payload"})
           => req[r].status = 200

\* C15 for the requests whose events raise nothing.
C15_NoTokenUnlessRaised ==
  accessToken = "" =>
    /\ \A r \in Reqs : req[r].pc # "reply"
    /\ (last.step = "event" /\ last.kind # "raise") =>
         /\ last.sent = NoMsg
         /\ IsCommandEvent(last.ev) =>
              /\ last.wrote
              /\ file = save_users(ProcessEvent(last.usersBefore, last.ev).users)
    /\ \A r \in Reqs :
         (req[r].pc = "done" /\ req[r].status # 400
            /\ req[r].fault \notin {"signature", "payload", "event"})
           => req[r].status = 200

\* The comma-separated pieces of a text, trimmed, without the empty ones.
TrimmedPieces(text) ==
  LET pieces == Split(text, ",")
  IN SelectSeq([i \in 1..Len(pieces) |-> Strip(pieces[i])],
               LAMBDA t : t # <<>>)

\* The entries of raw from position i on whose key no earlier entry has.
RECURSIVE FirstOccurrences(_, _)
FirstOccurrences(raw, i) ==
  IF i > Len(raw) THEN <<>>
  ELSE (IF \E j \in 1..(i - 1) : Lower(raw[j]) = Lower(raw[i])
        THEN <<>> ELSE <<raw[i]>>)
       \o FirstOccurrences(raw, i + 1)

\* ','.join(list)
RECURSIVE JoinComma(_)
JoinComma(list) ==
  IF list = <<>> THEN <<>>
  ELSE IF Len(list) = 1 THEN list[1]
  ELSE list[1] \o <<",">> \o JoinComma(Tail(list))

\* C16: normalize_keywords returns the trimmed non-empty comma-separated
\* pieces, for each case-insensitive key its first occurrence in its
\* casing, in first-seen order; no entry is empty, has surrounding
\* whitespace or a comma; no two entries are equal ignoring case; the
\* empty text gives the empty sequence; the comma-joined result
\* normalizes to the same sequence.
C16_Normalize ==
  nout.stage >= 1 =>
    LET out == nout.first
    IN /\ out = FirstOccurrences(TrimmedPieces(ntext), 1)
       /\ \A k \in 1..Len(out) :
            /\ out[k] # <<>>
            /\ ~IsSpace(out[k][1]) /\ ~IsSpace(out[k][Len(out[k])])
            /\ \A i \in 1..Len(out[k]) : out[k][i] # ","
       /\ NoCaseDup(out)
       /\ ntext = <<>> => out = <<>>
       /\ normalize_keywords(JoinComma(out)) = out
       /\ nout.stage = 2 => nout.second = out

\* C16 witness: "X,x,y" gives [X, y], and so does "X, y".
C16_Witness ==
  /\ ntext = <<"X", ",", "x", ",", "y">>
  /\ nout.stage = 2
  /\ nout.first = <<K_X, K_y>>
  /\ nout.second = <<K_X, K_y>>

\* The characters of s before its first whitespace character.
RECURSIVE TakeToken(_)
TakeToken(s) ==
  IF s = <<>> \/ IsSpace(Head(s)) THEN <<>>
  ELSE <<Head(s)>> \o TakeToken(Tail(s))

\* C17: a message whose trimmed text starts with neither "+" nor "-" and
\* whose first token, up to the first whitespace character of any kind,
\* is a list synonym ignoring case is answered with the list reply.
C17_ListAnyWhitespace ==
  (last.step = "event" /\ last.kind \in {"add", "remove", "list", "echo"}) =>
    LET t == Strip(last.ev.text)
        token == Lower(TakeToken(t))
    IN (t # <<>> /\ t[1] \notin {"+", "-"} /\ token \in ListWords) =>
         /\ last.kind = "list"
         /\ last.msg = ListMsg(last.before)

\* C17 for the tokens that an ordinary or full-width space ends, and the
\* tokens that end the text.
C17_ListSpaceDelimited ==
  (last.step = "event" /\ last.kind \in {"add", "remove", "list", "echo"}) =>
    LET t == Strip(last.ev.text)
        token == Lower(TakeToken(t))
        rest == SubSeq(t, Len(token) + 1, Len(t))
    IN (t # <<>> /\ t[1] \notin {"+", "-"} /\ token \in ListWords
          /\ (rest = <<>> \/ rest[1] \in {SP, FWSP})) =>
         /\ last.kind = "list"
         /\ last.msg = ListMsg(last.before)

\* C18: an add or remove command has saved the file when its reply call
\* starts: the file then holds the user's list as the command left it;
\* and the return of a reply call, failed or not, leaves the file as it is.
C18_SavedBeforeReply ==
  /\ (last.step = "event" /\ last.kind \in {"add", "remove"}) =>
       /\ last.wrote /\ last.ncalls = 1
       /\ line_reply_sends => req[last.req].pc = "reply"
       /\ file.kind = "json"
       /\ UserList(file.data, DumpKey(last.userId))
            = UserList(ProcessEvent(last.usersBefore, last.ev).users, last.userId)
       /\ UserList(file.data, DumpKey(last.userId))
            = UserList(req[last.req].users, last.userId)
  /\ last.step = "resume" => file = last.fileBefore

\* C18 witness: the reply to the first event of a request, which saved
\* [X, y] for U1, has failed, and the file holds [X, y].
C18_Witness ==
  /\ last.step = "resume"
  /\ last.outcome = "error"
  /\ last.idx = 0
  /\ last.writes = 1
  /\ lastWriter = last.req
  /\ UserList(file.data, "U1") = <<K_X, K_y>>

\* C19: the first event of a request works on the mapping that the file
\* holds at that moment; and when every request carried exactly one event
\* and all have finished, the file holds what applying the commands one
\* after the other, in the order of their saves, gives.
C19_NoLostUpdate ==
  /\ (last.step = "event" /\ last.idx = 0) =>
       last.usersBefore = load_users_of(last.fileBefore)
  /\ (AllDone /\ \A r \in Reqs : req[r].n = 1) => file.data = serial

\* C19 witness: two requests of one event each overlapped (the one that
\* saved first got its reply last), and the file holds both updates.
C19_Witness ==
  /\ AllDone
  /\ \A r \in Reqs : req[r].n = 1 /\ req[r].status = 200
  /\ last.step = "finish"
  /\ lastWriter # last.req
  /\ UserList(file.data, "U1") = <<K_X, K_y>>
  /\ UserList(file.data, "U2") = <<K_X, K_y>>

\* C20: with requests handled one after the other, an add or remove
\* command of a user leaves every other user as it was, in the mapping
\* and in the file: no record appears, disappears or changes.
C20_OtherUsersUntouched ==
  (last.step = "event" /\ last.kind \in {"add", "remove"}) =>
    \A v \in UserIds \ {last.userId} :
      /\ v \in DOMAIN req[last.req].users <=> v \in DOMAIN last.usersBefore
      /\ v \in DOMAIN last.usersBefore =>
           req[last.req].users[v] = last.usersBefore[v]
      /\ DumpKey(v) # DumpKey(last.userId) =>
           /\ DumpKey(v) \in DOMAIN file.data
                <=> DumpKey(v) \in DOMAIN last.fileBefore.data
           /\ DumpKey(v) \in DOMAIN file.data =>
                file.data[DumpKey(v)] = last.fileBefore.data[DumpKey(v)]

\* C20 witness: in the first request on an empty store U2, then U1, each
\* without a record, add keywords: U1 gets [x, Z] and U2 keeps [X, y].
C20_Witness ==
  /\ last.step = "event" /\ last.kind = "add"
  /\ last.userId = "U1" /\ last.idx = 1
  /\ "U1" \notin DOMAIN last.usersBefore
  /\ \A q \in Reqs \ {last.req} : req[q].pc = "idle"
  /\ UserList(req[last.req].users, "U1") = <<<<"x">>, K_Z>>
  /\ UserList(req[last.req].users, "U2") = <<K_X, K_y>>
  /\ UserList(file.data, "U2") = <<K_X, K_y>>
====
